---- MODULE Spec2Model ----
(***************************************************************************)
(* BHex.js: the hexagon grid of BHex.Core.js (BHex.Axial, BHex.Hexagon,    *)
(* BHex.Grid, getHexAt, getNeighbors, getDistance, getRange, findPath).    *)
(*                                                                         *)
(* Objects are modelled by value: an Axial is [x, y], a Hexagon is         *)
(* [x, y, cost, blocked]; a search node is a record of the arena `nodes`   *)
(* and a reference to a node is its index there (0 is null).  getKey's     *)
(* string x + "x" + y is the pair <<x, y>> (both are one-to-one on         *)
(* integer coordinates).  A missing (undefined) argument is the falsy      *)
(* value of its type, 0 or FALSE, which the constructors treat alike.      *)
(***************************************************************************)
EXTENDS Integers, Sequences, FiniteSets, TLC

\* ------------------------------------------------------------------ bounds
MaxRadius == 2
MaxCost == 2
MaxEdits == 2
MaxMovement == 2
MaxTenths == 15

\* ------------------------------------------------------------ coordinates
Abs(n) == IF n < 0 THEN -n ELSE n

Axial(x, y) == [x |-> x, y |-> y]

getKey(a) == <<a.x, a.y>>

compareTo(a, other) == a.x = other.x /\ a.y = other.y

Hexagon(x, y, cost, blocked) ==
  [x |-> x, y |-> y, cost |-> (IF cost # 0 THEN cost ELSE 1), blocked |-> blocked]

\* ------------------------------------------------------------------- grid
\* The k-th (k = 0, 1, ...) triple of the three nested loops over -r..r.
LoopTriple(r, k) ==
  LET n == 2 * r + 1
  IN  <<(k \div (n * n)) - r, ((k \div n) % n) - r, (k % n) - r>>

\* GridHexes without the test x + y + z == 0 on a third loop: the whole
\* square of (x, y).
GridHexesSquare(r) ==
  LET n == 2 * r + 1
  IN  [k \in 1..(IF r < 0 THEN 0 ELSE n * n) |->
         Hexagon(((k - 1) \div n) - r, ((k - 1) % n) - r, 0, FALSE)]

GridHexes(r) ==
  LET n == 2 * r + 1
      all == [k \in 1..(IF r < 0 THEN 0 ELSE n * n * n) |-> LoopTriple(r, k - 1)]
      hit == SelectSeq(all, LAMBDA t : t[1] + t[2] + t[3] = 0)
  IN  [i \in 1..Len(hit) |-> Hexagon(hit[i][1], hit[i][2], 0, FALSE)]

\* new BHex.Grid(radius): the fields radius and hexes.
Grid(r) == [radius |-> r, hexes |-> GridHexes(r)]

\* The index in hexes of the first hexagon at a, 0 (undefined) when none.
getHexAt(hs, a) ==
  LET found == {i \in 1..Len(hs) : compareTo(hs[i], a)}
  IN  IF found = {} THEN 0 ELSE CHOOSE i \in found : \A j \in found : i <= j

\* directions with the second offset (+1, +1) in place of (+1, -1).
directionsSkewed(a) ==
  << Axial(a.x + 1, a.y), Axial(a.x + 1, a.y + 1), Axial(a.x, a.y - 1),
     Axial(a.x - 1, a.y), Axial(a.x - 1, a.y + 1), Axial(a.x, a.y + 1) >>

directions(a) ==
  << Axial(a.x + 1, a.y), Axial(a.x + 1, a.y - 1), Axial(a.x, a.y - 1),
     Axial(a.x - 1, a.y), Axial(a.x - 1, a.y + 1), Axial(a.x, a.y + 1) >>

\* The neighbouring hexagons of a, as indices into hexes, in direction order.
getNeighbors(hs, a) ==
  LET d  == directions(a)
      at == [i \in 1..6 |-> getHexAt(hs, d[i])]
  IN  SelectSeq(at, LAMBDA h : h # 0)

\* DistanceSum without Math.abs around its middle term.
DistanceSumSigned(a, b) ==
  Abs(a.x - b.x) + (a.x + a.y - b.x - b.y) + Abs(a.y - b.y)

\* Twice the distance: the sum the code halves.
DistanceSum(a, b) ==
  Abs(a.x - b.x) + Abs(a.x + a.y - b.x - b.y) + Abs(a.y - b.y)

\* getDistance without the division by 2.
getDistanceUnhalved(a, b) == DistanceSum(a, b)

getDistance(a, b) == DistanceSum(a, b) \div 2

\* ----------------------------------------------------------- search nodes
\* rescore without this.parent = parent.
rescoreWithoutParent(node, parent, g, h) ==
  [node EXCEPT !.G = g, !.H = h, !.F = g + h]

\* rescore with F = H in place of F = G + H.
rescoreByHeuristic(node, parent, g, h) ==
  [node EXCEPT !.parent = parent, !.G = g, !.H = h, !.F = h]

\* Node.prototype.rescore: a missing h is 0 (h || 0).
rescore(node, parent, g, h) ==
  [node EXCEPT !.parent = parent, !.G = g, !.H = h, !.F = g + h]

\* new BHex.Grid.Search.Node(hex, parent, g, h); parent 0 is null.
Node(hex, parent, g, h) ==
  rescore([hex |-> hex, parent |-> 0, G |-> 0, H |-> 0, F |-> 0], parent, g, h)

\* ------------------------------------------------------------ binary heap
\* BinaryHeap(function (node) { return node.F; }): the content array holds
\* node references; ns is the arena the scores are read from.
Swap(c, i, j) == [c EXCEPT ![i] = c[j], ![j] = c[i]]

RECURSIVE SiftUp(_, _, _)
SiftUp(c, i, ns) ==
  IF i > 1 /\ ns[c[i]].F < ns[c[i \div 2]].F
    THEN SiftUp(Swap(c, i, i \div 2), i \div 2, ns)
    ELSE c

RECURSIVE SiftDown(_, _, _)
SiftDown(c, i, ns) ==
  LET l  == 2 * i
      r  == 2 * i + 1
      s1 == IF l <= Len(c) /\ ns[c[l]].F < ns[c[i]].F THEN l ELSE i
      s2 == IF r <= Len(c) /\ ns[c[r]].F < ns[c[s1]].F THEN r ELSE s1
  IN  IF s2 = i THEN c ELSE SiftDown(Swap(c, i, s2), s2, ns)

HeapPush(c, n, ns) == SiftUp(Append(c, n), Len(c) + 1, ns)

\* pop: the root, and the content left once the last item has replaced it.
HeapPop(c, ns) ==
  [ item    |-> c[1],
    content |-> IF Len(c) = 1 THEN << >>
                ELSE SiftDown([SubSeq(c, 1, Len(c) - 1) EXCEPT ![1] = c[Len(c)]], 1, ns) ]

HeapRescore(c, n, ns) ==
  SiftUp(c, CHOOSE i \in 1..Len(c) : c[i] = n, ns)

\* What pop may return under any order among equal scores: each item of the
\* least score, with the content left without it.
AnyMinPop(c, ns) ==
  { [ item    |-> c[i],
      content |-> [k \in 1..(Len(c) - 1) |-> IF k < i THEN c[k] ELSE c[k + 1]] ] :
    i \in {j \in 1..Len(c) : \A k \in 1..Len(c) : ns[c[j]].F <= ns[c[k]].F} }

\* ---------------------------------------------------------------- searches
\* visitedNodes[key]: the node recorded under key, 0 (undefined) when none.
\* vn lists the recorded nodes in insertion order.
VisitedAt(vn, ns, key) ==
  IF \E i \in 1..Len(vn) : getKey(ns[vn[i]].hex) = key
    THEN vn[CHOOSE i \in 1..Len(vn) : getKey(ns[vn[i]].hex) = key]
    ELSE 0

\* The locals of one search: the node arena, openHeap, closedHexes (its keys)
\* and visitedNodes.
Locals(ns, oh, ch, vn) ==
  [nodes |-> ns, openHeap |-> oh, closedHexes |-> ch, visitedNodes |-> vn]

\* RangeVisit without the test of n.blocked.
RangeVisitEnteringBlocked(st, current, n, mv) ==
  IF getKey(n) \in st.closedHexes THEN st
  ELSE
    LET g       == st.nodes[current].G + n.cost
        visited == VisitedAt(st.visitedNodes, st.nodes, getKey(n))
    IN  IF g <= mv /\ (visited = 0 \/ g < st.nodes[visited].G)
        THEN
          IF visited = 0
          THEN LET ns    == Append(st.nodes, Node(n, current, g, 0))
                   nNode == Len(ns)
               IN  Locals(ns, HeapPush(st.openHeap, nNode, ns), st.closedHexes,
                          Append(st.visitedNodes, nNode))
          ELSE LET ns == [st.nodes EXCEPT ![visited] = rescore(@, current, g, 0)]
               IN  Locals(ns, HeapRescore(st.openHeap, visited, ns), st.closedHexes,
                          st.visitedNodes)
        ELSE st

\* RangeVisit with g < movement in place of g <= movement.
RangeVisitStrictBudget(st, current, n, mv) ==
  IF n.blocked \/ getKey(n) \in st.closedHexes THEN st
  ELSE
    LET g       == st.nodes[current].G + n.cost
        visited == VisitedAt(st.visitedNodes, st.nodes, getKey(n))
    IN  IF g < mv /\ (visited = 0 \/ g < st.nodes[visited].G)
        THEN
          IF visited = 0
          THEN LET ns    == Append(st.nodes, Node(n, current, g, 0))
                   nNode == Len(ns)
               IN  Locals(ns, HeapPush(st.openHeap, nNode, ns), st.closedHexes,
                          Append(st.visitedNodes, nNode))
          ELSE LET ns == [st.nodes EXCEPT ![visited] = rescore(@, current, g, 0)]
               IN  Locals(ns, HeapRescore(st.openHeap, visited, ns), st.closedHexes,
                          st.visitedNodes)
        ELSE st

\* RangeVisit without the test of closedHexes.
RangeVisitIgnoringClosed(st, current, n, mv) ==
  IF n.blocked THEN st
  ELSE
    LET g       == st.nodes[current].G + n.cost
        visited == VisitedAt(st.visitedNodes, st.nodes, getKey(n))
    IN  IF g <= mv /\ (visited = 0 \/ g < st.nodes[visited].G)
        THEN
          IF visited = 0
          THEN LET ns    == Append(st.nodes, Node(n, current, g, 0))
                   nNode == Len(ns)
               IN  Locals(ns, HeapPush(st.openHeap, nNode, ns), st.closedHexes,
                          Append(st.visitedNodes, nNode))
          ELSE LET ns == [st.nodes EXCEPT ![visited] = rescore(@, current, g, 0)]
               IN  Locals(ns, HeapRescore(st.openHeap, visited, ns), st.closedHexes,
                          st.visitedNodes)
        ELSE st

\* getRange's callback for the neighbor n (a hexagon) of the node current.
RangeVisit(st, current, n, mv) ==
  IF n.blocked \/ getKey(n) \in st.closedHexes THEN st
  ELSE
    LET g       == st.nodes[current].G + n.cost
        visited == VisitedAt(st.visitedNodes, st.nodes, getKey(n))
    IN  IF g <= mv /\ (visited = 0 \/ g < st.nodes[visited].G)
        THEN
          IF visited = 0
          THEN LET ns    == Append(st.nodes, Node(n, current, g, 0))
                   nNode == Len(ns)
               IN  Locals(ns, HeapPush(st.openHeap, nNode, ns), st.closedHexes,
                          Append(st.visitedNodes, nNode))
          ELSE LET ns == [st.nodes EXCEPT ![visited] = rescore(@, current, g, 0)]
               IN  Locals(ns, HeapRescore(st.openHeap, visited, ns), st.closedHexes,
                          st.visitedNodes)
        ELSE st

\* PathVisit without the test of n.blocked.
PathVisitEnteringBlocked(st, current, n, e) ==
  IF getKey(n) \in st.closedHexes THEN st
  ELSE
    LET g       == st.nodes[current].G + n.cost
        visited == VisitedAt(st.visitedNodes, st.nodes, getKey(n))
    IN  IF visited = 0 \/ g < st.nodes[visited].G
        THEN
          LET h == getDistance(n, e)
          IN  IF visited = 0
              THEN LET ns    == Append(st.nodes, Node(n, current, g, h))
                       nNode == Len(ns)
                   IN  Locals(ns, HeapPush(st.openHeap, nNode, ns),
                              st.closedHexes \cup {getKey(n)}, st.visitedNodes)
              ELSE LET ns == [st.nodes EXCEPT ![visited] = rescore(@, current, g, h)]
                   IN  Locals(ns, HeapRescore(st.openHeap, visited, ns), st.closedHexes,
                              st.visitedNodes)
        ELSE st

\* findPath's callback for the neighbor n of the node current.
PathVisit(st, current, n, e) ==
  IF n.blocked \/ getKey(n) \in st.closedHexes THEN st
  ELSE
    LET g       == st.nodes[current].G + n.cost
        visited == VisitedAt(st.visitedNodes, st.nodes, getKey(n))
    IN  IF visited = 0 \/ g < st.nodes[visited].G
        THEN
          LET h == getDistance(n, e)
          IN  IF visited = 0
              THEN LET ns    == Append(st.nodes, Node(n, current, g, h))
                       nNode == Len(ns)
                   IN  Locals(ns, HeapPush(st.openHeap, nNode, ns),
                              st.closedHexes \cup {getKey(n)}, st.visitedNodes)
              ELSE LET ns == [st.nodes EXCEPT ![visited] = rescore(@, current, g, h)]
                   IN  Locals(ns, HeapRescore(st.openHeap, visited, ns), st.closedHexes,
                              st.visitedNodes)
        ELSE st

\* neighbors.forEach(...) from the i-th neighbor on.
RECURSIVE RangeForEach(_, _, _, _, _, _)
RangeForEach(hs, st, current, nbs, i, mv) ==
  IF i > Len(nbs) THEN st
  ELSE RangeForEach(hs, RangeVisit(st, current, hs[nbs[i]], mv), current, nbs, i + 1, mv)

RECURSIVE PathForEach(_, _, _, _, _, _)
PathForEach(hs, st, current, nbs, i, e) ==
  IF i > Len(nbs) THEN st
  ELSE PathForEach(hs, PathVisit(st, current, hs[nbs[i]], e), current, nbs, i + 1, e)

\* RangeExpand that does not leave a blocked cell: the neighbors of a blocked
\* current are not visited.
RangeExpandFromUnblocked(hs, st, current, mv) ==
  LET closed == [st EXCEPT !.closedHexes = @ \cup {getKey(st.nodes[current].hex)}]
      here   == getHexAt(hs, st.nodes[current].hex)
  IN  IF here # 0 /\ hs[here].blocked THEN closed
      ELSE RangeForEach(hs, closed, current, getNeighbors(hs, st.nodes[current].hex), 1, mv)

\* The body of a search loop after the pop: close current, visit its neighbors.
RangeExpand(hs, st, current, mv) ==
  LET closed == [st EXCEPT !.closedHexes = @ \cup {getKey(st.nodes[current].hex)}]
  IN  RangeForEach(hs, closed, current, getNeighbors(hs, st.nodes[current].hex), 1, mv)

PathExpand(hs, st, current, e) ==
  LET closed == [st EXCEPT !.closedHexes = @ \cup {getKey(st.nodes[current].hex)}]
  IN  PathForEach(hs, closed, current, getNeighbors(hs, st.nodes[current].hex), 1, e)

\* Backtrack with while (current) in place of while (current.parent): the
\* root's hex, the start, comes first.
RECURSIVE BacktrackToRoot(_, _)
BacktrackToRoot(ns, current) ==
  IF current = 0 THEN << >>
  ELSE Append(BacktrackToRoot(ns, ns[current].parent), ns[current].hex)

\* Backtrack begun at the parent of current: the end is left out.
RECURSIVE BacktrackFromParent(_, _)
BacktrackFromParent(ns, current) ==
  IF ns[current].parent = 0 \/ ns[ns[current].parent].parent = 0 THEN << >>
  ELSE Append(BacktrackFromParent(ns, ns[current].parent), ns[ns[current].parent].hex)

\* findPath's backtracking: the hexes from the node after the root to current.
RECURSIVE Backtrack(_, _)
Backtrack(ns, current) ==
  IF ns[current].parent = 0 THEN << >>
  ELSE Append(Backtrack(ns, ns[current].parent), ns[current].hex)

\* getRange's result: the hex of every visited node, in insertion order.
RangeResult(ns, vn) == [i \in 1..Len(vn) |-> ns[vn[i]].hex]

\* getRange's loop run to its end from the locals st, and its result.
RECURSIVE GetRangeLoop(_, _, _)
GetRangeLoop(hs, st, mv) ==
  IF Len(st.openHeap) = 0 THEN RangeResult(st.nodes, st.visitedNodes)
  ELSE LET p == HeapPop(st.openHeap, st.nodes)
       IN  GetRangeLoop(hs, RangeExpand(hs, [st EXCEPT !.openHeap = p.content], p.item, mv), mv)

\* grid.getRange(a, m) as one call on the cells hs.
getRange(hs, a, m) ==
  LET ns == << Node(a, 0, 0, 0) >>
  IN  GetRangeLoop(hs, Locals(ns, HeapPush(<< >>, 1, ns), {}, << >>), m)

\* findPath's loop run to its end from the locals st, and its result.
RECURSIVE FindPathLoop(_, _, _)
FindPathLoop(hs, st, e) ==
  IF Len(st.openHeap) = 0 THEN << >>
  ELSE LET p == HeapPop(st.openHeap, st.nodes)
       IN  IF compareTo(st.nodes[p.item].hex, e) THEN Backtrack(st.nodes, p.item)
           ELSE FindPathLoop(hs, PathExpand(hs, [st EXCEPT !.openHeap = p.content], p.item, e), e)

\* grid.findPath(a, b) as one call on the cells hs.
findPath(hs, a, b) ==
  LET ns == << Node(a, 0, 0, getDistance(a, b)) >>
  IN  FindPathLoop(hs, Locals(ns, HeapPush(<< >>, 1, ns), {}, << >>), b)

\* ------------------------------------------------------------------ state
VARIABLES
  radius,        \* grid.radius
  hexes,         \* grid.hexes
  edits,         \* cost / blocked assignments made by the grid's user so far
  pc,            \* "idle", or the search in progress: "getRange", "findPath"
  start,         \* the running search's arguments
  end,
  movement,
  nodes,         \* the running search's node arena
  openHeap,      \* ... its heap content
  closedHexes,   \* ... the keys of closedHexes
  visitedNodes,  \* ... visitedNodes, in insertion order
  ret            \* the last call and the value it returned

vars == << radius, hexes, edits, pc, start, end, movement,
           nodes, openHeap, closedHexes, visitedNodes, ret >>

grid == << radius, hexes, edits >>
args == << start, end, movement >>
locals == << nodes, openHeap, closedHexes, visitedNodes >>

NoRet == [op |-> "none"]
NoArg == Axial(0, 0)

Cur == Locals(nodes, openHeap, closedHexes, visitedNodes)

SetLocals(st) ==
  /\ nodes' = st.nodes
  /\ openHeap' = st.openHeap
  /\ closedHexes' = st.closedHexes
  /\ visitedNodes' = st.visitedNodes

\* A search's locals and arguments are gone once it has returned.
Idle ==
  /\ pc' = "idle"
  /\ start' = NoArg /\ end' = NoArg /\ movement' = 0
  /\ SetLocals(Locals(<< >>, << >>, {}, << >>))

\* ----------------------------------------------------------------- inputs
\* The coordinates of the region of radius r.
Region(r) ==
  {Axial(x, y) : x \in -r..r, y \in -r..r} \cap
  {a \in [x : -r..r, y : -r..r] : Abs(a.x + a.y) <= r}

\* Arguments of the calls: the coordinates of the grid's region, one next to
\* it and one away from it.
Coords == Region(radius) \cup {Axial(radius + 1, -1), Axial(radius + 2, 0)}

\* ---------------------------------------------------------------- actions
InitGrid(r) ==
  /\ radius = (IF r # 0 THEN r ELSE 0)
  /\ hexes = GridHexes(r)
  /\ edits = 0
  /\ pc = "idle"
  /\ start = NoArg /\ end = NoArg /\ movement = 0
  /\ nodes = << >> /\ openHeap = << >> /\ closedHexes = {} /\ visitedNodes = << >>
  /\ ret = NoRet

Init == \E r \in 0..MaxRadius : InitGrid(r)

\* hex.cost = c, by the grid's user, between searches.
SetCost(i, c) ==
  /\ pc = "idle" /\ edits < MaxEdits
  /\ hexes[i].cost # c
  /\ hexes' = [hexes EXCEPT ![i].cost = c]
  /\ edits' = edits + 1
  /\ ret' = NoRet
  /\ UNCHANGED << radius, pc, args, locals >>

\* hex.blocked = b.
SetBlocked(i, b) ==
  /\ pc = "idle" /\ edits < MaxEdits
  /\ hexes[i].blocked # b
  /\ hexes' = [hexes EXCEPT ![i].blocked = b]
  /\ edits' = edits + 1
  /\ ret' = NoRet
  /\ UNCHANGED << radius, pc, args, locals >>

\* grid.getRange(a, m) up to its loop.
CallGetRange(a, m) ==
  /\ pc = "idle" /\ ret = NoRet
  /\ pc' = "getRange"
  /\ start' = a /\ end' = NoArg /\ movement' = m
  /\ LET ns == << Node(a, 0, 0, 0) >>
     IN  SetLocals(Locals(ns, HeapPush(<< >>, 1, ns), {}, << >>))
  /\ ret' = NoRet
  /\ UNCHANGED grid

\* RangeIteration that marks the popped node's cell as closed on the cell
\* itself.
RangeIterationMarkingCells(p) ==
  /\ SetLocals(RangeExpand(hexes, [Cur EXCEPT !.openHeap = p.content], p.item, movement))
  /\ hexes' = [i \in 1..Len(hexes) |->
                IF compareTo(hexes[i], nodes[p.item].hex)
                  THEN [x |-> hexes[i].x, y |-> hexes[i].y, cost |-> hexes[i].cost,
                        blocked |-> hexes[i].blocked, closed |-> TRUE]
                  ELSE hexes[i]]
  /\ UNCHANGED << radius, edits, pc, args, ret >>

\* One iteration of getRange's loop, entered with the popped node p.item.
RangeIteration(p) ==
  /\ SetLocals(RangeExpand(hexes, [Cur EXCEPT !.openHeap = p.content], p.item, movement))
  /\ UNCHANGED << grid, pc, args, ret >>

GetRangeStep ==
  /\ pc = "getRange" /\ Len(openHeap) > 0
  /\ RangeIteration(HeapPop(openHeap, nodes))

\* The loop is over: collect visitedNodes and return.
GetRangeReturn ==
  /\ pc = "getRange" /\ Len(openHeap) = 0
  /\ ret' = [op |-> "getRange", start |-> start, movement |-> movement,
             value |-> RangeResult(nodes, visitedNodes)]
  /\ Idle
  /\ UNCHANGED grid

\* grid.findPath(a, b) up to its loop.
CallFindPath(a, b) ==
  /\ pc = "idle" /\ ret = NoRet
  /\ pc' = "findPath"
  /\ start' = a /\ end' = b /\ movement' = 0
  /\ LET ns == << Node(a, 0, 0, getDistance(a, b)) >>
     IN  SetLocals(Locals(ns, HeapPush(<< >>, 1, ns), {}, << >>))
  /\ ret' = NoRet
  /\ UNCHANGED grid

\* One iteration of findPath's loop, entered with the popped node p.item:
\* return the path when it is the end, expand it otherwise.
PathIteration(p) ==
  IF compareTo(nodes[p.item].hex, end)
  THEN /\ ret' = [op |-> "findPath", start |-> start, end |-> end,
                  value |-> Backtrack(nodes, p.item)]
       /\ Idle
       /\ UNCHANGED grid
  ELSE /\ SetLocals(PathExpand(hexes, [Cur EXCEPT !.openHeap = p.content], p.item, end))
       /\ UNCHANGED << grid, pc, args, ret >>

FindPathStep ==
  /\ pc = "findPath" /\ Len(openHeap) > 0
  /\ PathIteration(HeapPop(openHeap, nodes))

\* The heap is empty: failed to find a path.
FindPathFail ==
  /\ pc = "findPath" /\ Len(openHeap) = 0
  /\ ret' = [op |-> "findPath", start |-> start, end |-> end, value |-> << >>]
  /\ Idle
  /\ UNCHANGED grid

\* The caller is done with the returned value.
Discard ==
  /\ pc = "idle" /\ ret # NoRet
  /\ ret' = NoRet
  /\ UNCHANGED << grid, pc, args, locals >>

\* The user's assignments go to the cells of the row y = 0.
Edit ==
  \E i \in {k \in 1..Len(hexes) : hexes[k].y = 0} :
    \/ \E c \in 1..MaxCost : SetCost(i, c)
    \/ \E b \in BOOLEAN : SetBlocked(i, b)

Next ==
  \/ Edit
  \/ Discard
  \/ \E a \in Coords, m \in 0..MaxMovement : CallGetRange(a, m)
  \/ GetRangeStep
  \/ GetRangeReturn
  \/ \E a, b \in Coords : CallFindPath(a, b)
  \/ FindPathStep
  \/ FindPathFail

Spec == Init /\ [][Next]_vars

\* ------------------------------------------------- the functions of the grid
\* grid = new BHex.Grid(r)
NewGrid(r) ==
  /\ pc = "idle" /\ ret = NoRet
  /\ radius' = (IF r # 0 THEN r ELSE 0)
  /\ hexes' = GridHexes(r)
  /\ edits' = 0
  /\ ret' = [op |-> "Grid", radius |-> r]
  /\ UNCHANGED << pc, args, locals >>

CallGetHexAt(a) ==
  /\ pc = "idle" /\ ret = NoRet
  /\ ret' = [op |-> "getHexAt", a |-> a, value |-> getHexAt(hexes, a)]
  /\ UNCHANGED << grid, pc, args, locals >>

\* The value is the array of the neighboring hexagons.
CallGetNeighbors(a) ==
  /\ pc = "idle" /\ ret = NoRet
  /\ ret' = [op |-> "getNeighbors", a |-> a,
             value |-> LET nbs == getNeighbors(hexes, a)
                       IN  [i \in 1..Len(nbs) |-> hexes[nbs[i]]]]
  /\ UNCHANGED << grid, pc, args, locals >>

CallGetDistance(a, b) ==
  /\ pc = "idle" /\ ret = NoRet
  /\ ret' = [op |-> "getDistance", a |-> a, b |-> b, value |-> getDistance(a, b)]
  /\ UNCHANGED << grid, pc, args, locals >>

\* new BHex.Hexagon(a.x, a.y, c, b); c = 0 is also the call without a cost.
CallHexagon(a, c, b) ==
  /\ pc = "idle" /\ ret = NoRet
  /\ ret' = [op |-> "Hexagon", cost |-> c, value |-> Hexagon(a.x, a.y, c, b)]
  /\ UNCHANGED << grid, pc, args, locals >>

NextGrid ==
  \/ Edit
  \/ Discard
  \/ \E r \in -1..MaxRadius : NewGrid(r)
  \/ \E a \in Coords, c \in -1..MaxCost, b \in BOOLEAN : CallHexagon(a, c, b)
  \/ \E a \in Coords : CallGetHexAt(a)
  \/ \E a \in Coords : CallGetNeighbors(a)
  \/ \E a, b \in Coords : CallGetDistance(a, b)

SpecGrid == Init /\ [][NextGrid]_vars

\* ------------------------------- findPath under every order of equal scores
\* The grid of radius 2 of the README's and the tests' scenarios.
InitTies == InitGrid(2)

BlockCenter == SetBlocked(getHexAt(hexes, Axial(0, 0)), TRUE)

FindPathStepAnyTie ==
  /\ pc = "findPath" /\ Len(openHeap) > 0
  /\ \E p \in AnyMinPop(openHeap, nodes) : PathIteration(p)

NextTies ==
  \/ BlockCenter
  \/ Discard
  \/ \E a, b \in Region(radius) : CallFindPath(a, b)
  \/ FindPathStepAnyTie
  \/ FindPathFail

SpecTies == InitTies /\ [][NextTies]_vars

\* ---------------------------------------- the searches and the grid functions
NextQueries ==
  \/ Edit
  \/ Discard
  \/ \E a \in Coords, m \in 0..MaxMovement : CallGetRange(a, m)
  \/ GetRangeStep
  \/ GetRangeReturn
  \/ \E a, b \in Coords : CallFindPath(a, b)
  \/ FindPathStep
  \/ FindPathFail
  \/ \E a \in Coords : CallGetHexAt(a)
  \/ \E a \in Coords : CallGetNeighbors(a)
  \/ \E a, b \in Coords : CallGetDistance(a, b)

SpecQueries == Init /\ [][NextQueries]_vars

\* -------------------------------------------------------- cube coordinates
\* Fractional coordinates are counted in tenths: 0.6 is 6, and the whole
\* number n is Whole(n).  Residuals are compared exactly.
Whole(n) == 10 * n

IsWhole(v) == v % 10 = 0

\* Math.floor in place of Math.round.
Math_floor(v) == Whole(v \div 10)

\* Math.round: the nearest whole number, a half going up.
Math_round(v) == Whole((v + 5) \div 10)

\* new BHex.Cube(x, y, z): a falsy z is -x-y.
Cube(x, y, z) == [x |-> x, y |-> y, z |-> (IF z # 0 THEN z ELSE -x - y)]

\* toCube laying the axial's y on the cube's y.
toCubeUnswapped(a) == Cube(a.x, a.y, -a.x - a.y)

\* Axial.prototype.toCube
toCube(a) == Cube(a.x, -a.x - a.y, a.y)

\* Cube.prototype.toAxial
toAxial(c) == Axial(c.x, c.z)

\* round with >= in its first test: x is recomputed on a tie too.
roundTiesToX(c) ==
  LET rx     == Math_round(c.x)
      ry     == Math_round(c.y)
      rz     == Math_round(c.z)
      x_diff == Abs(rx - c.x)
      y_diff == Abs(ry - c.y)
      z_diff == Abs(rz - c.z)
  IN  IF x_diff >= y_diff /\ x_diff >= z_diff THEN [x |-> -ry - rz, y |-> ry, z |-> rz]
      ELSE IF y_diff > z_diff THEN [x |-> rx, y |-> -rx - rz, z |-> rz]
      ELSE [x |-> rx, y |-> ry, z |-> -rx - ry]

\* Cube.prototype.round: the cube's fields after the call.
round(c) ==
  LET rx     == Math_round(c.x)
      ry     == Math_round(c.y)
      rz     == Math_round(c.z)
      x_diff == Abs(rx - c.x)
      y_diff == Abs(ry - c.y)
      z_diff == Abs(rz - c.z)
  IN  IF x_diff > y_diff /\ x_diff > z_diff THEN [x |-> -ry - rz, y |-> ry, z |-> rz]
      ELSE IF y_diff > z_diff THEN [x |-> rx, y |-> -rx - rz, z |-> rz]
      ELSE [x |-> rx, y |-> ry, z |-> -rx - ry]

Tenths == -MaxTenths..MaxTenths

\* c = new BHex.Cube(x, y, z); c.round()
CallRound(x, y, z) ==
  /\ pc = "idle" /\ ret = NoRet
  /\ ret' = [op |-> "round", c |-> Cube(x, y, z), value |-> round(Cube(x, y, z))]
  /\ UNCHANGED << grid, pc, args, locals >>

\* a = new BHex.Axial(x, y); a.toCube(), and a.toCube().toAxial()
CallToCube(x, y) ==
  /\ pc = "idle" /\ ret = NoRet
  /\ ret' = [op |-> "toCube", a |-> Axial(x, y), value |-> toCube(Axial(x, y)),
             back |-> toAxial(toCube(Axial(x, y)))]
  /\ UNCHANGED << grid, pc, args, locals >>

\* c = new BHex.Cube(x, y, z); c.toAxial(), and c.toAxial().toCube()
CallToAxial(x, y, z) ==
  /\ pc = "idle" /\ ret = NoRet
  /\ ret' = [op |-> "toAxial", c |-> Cube(x, y, z), value |-> toAxial(Cube(x, y, z)),
             back |-> toCube(toAxial(Cube(x, y, z)))]
  /\ UNCHANGED << grid, pc, args, locals >>

InitCube == InitGrid(0)

NextCube ==
  \/ Discard
  \/ ret = NoRet /\ \E x, y, z \in Tenths : CallRound(x, y, z)
  \/ ret = NoRet /\ \E x, y \in Tenths : CallToCube(x, y)
  \/ ret = NoRet /\ \E x, y, z \in Tenths : CallToAxial(x, y, z)

SpecCube == InitCube /\ [][NextCube]_vars

\* ------------------------------------------------ what the claims speak of
\* q is one neighbor step from p.
Adjacent(p, q) ==
  << q.x - p.x, q.y - p.y >> \in
    { <<1, 0>>, <<1, -1>>, <<0, -1>>, <<-1, 0>>, <<-1, 1>>, <<0, 1>> }

OnGrid(hs, a) == \E i \in 1..Len(hs) : hs[i].x = a.x /\ hs[i].y = a.y

\* More than any route costs.
Unreached(hs) == 1 + Len(hs) * MaxCost

Least(S) == CHOOSE m \in S : \A n \in S : m <= n

\* The least entry cost of hs[i] after one more step of a route from a, given
\* the costs d so far.
RelaxedAt(hs, a, d, i) ==
  IF hs[i].blocked THEN Unreached(hs)
  ELSE Least( {d[i]}
              \cup (IF Adjacent(a, hs[i]) THEN {hs[i].cost} ELSE {})
              \cup {d[j] + hs[i].cost :
                      j \in {k \in 1..Len(hs) : Adjacent(hs[k], hs[i]) /\ d[k] < Unreached(hs)}} )

\* One round of relaxation, for the cells 1..n.
RECURSIVE Relaxed(_, _, _, _)
Relaxed(hs, a, d, n) ==
  IF n = 0 THEN << >> ELSE Append(Relaxed(hs, a, d, n - 1), RelaxedAt(hs, a, d, n))

RECURSIVE RelaxedTimes(_, _, _, _)
RelaxedTimes(hs, a, d, k) ==
  LET e == Relaxed(hs, a, d, Len(hs))
  IN  IF k = 0 \/ e = d THEN d ELSE RelaxedTimes(hs, a, e, k - 1)

RECURSIVE Repeated(_, _)
Repeated(v, n) == IF n = 0 THEN << >> ELSE Append(Repeated(v, n - 1), v)

\* MinCost(hs, a)[i]: the least accumulated entry cost of a route of neighbor
\* steps from a to hs[i] that enters only unblocked cells (a itself is not
\* entered), Unreached(hs) when there is none.
MinCost(hs, a) ==
  RelaxedTimes(hs, a, Repeated(Unreached(hs), Len(hs)), Len(hs))

RECURSIVE TotalCost(_)
TotalCost(path) ==
  IF path = << >> THEN 0 ELSE path[1].cost + TotalCost(Tail(path))

NoRepeat(seq) == \A i, j \in 1..Len(seq) : i # j => seq[i] # seq[j]

Uniform(hs) == \A i \in 1..Len(hs) : hs[i].cost = 1 /\ ~hs[i].blocked

\* ------------------------------------------------------------------ claims
IsPath == ret.op = "findPath"
IsRange == ret.op = "getRange"

\* C1: findPath(a, b), for distinct cells a and b of the grid with b reachable
\* from a through unblocked cells, returns a path whose total cost is the
\* least total cost of such a route.
C1_FindPathCostIsLeast ==
  ( /\ IsPath
    /\ ~compareTo(ret.start, ret.end)
    /\ OnGrid(hexes, ret.start) /\ OnGrid(hexes, ret.end) )
  => LET least == MinCost(hexes, ret.start)[getHexAt(hexes, ret.end)]
     IN  least < Unreached(hexes) => TotalCost(ret.value) = least

\* C2: getRange(a, m) returns, each once, exactly the cells other than a that
\* a route from a through unblocked cells reaches at an accumulated entry
\* cost of at most m.
C2_RangeIsReachableWithinBudget ==
  IsRange =>
    /\ NoRepeat(ret.value)
    /\ LET least == MinCost(hexes, ret.start)
       IN  { ret.value[i] : i \in 1..Len(ret.value) } =
             { hexes[i] : i \in { k \in 1..Len(hexes) :
                                   /\ ~compareTo(hexes[k], ret.start)
                                   /\ least[k] < Unreached(hexes)
                                   /\ least[k] <= ret.movement } }
    /\ \A i \in 1..Len(ret.value) : ~compareTo(ret.value[i], ret.start)

\* A range that holds a cell dearer than 1 and leaves cells out, on a grid
\* with a blocked or dear cell.
C2_Witness ==
  /\ IsRange /\ ~Uniform(hexes)
  /\ ret.movement = MaxMovement
  /\ Len(ret.value) > 6
  /\ Len(ret.value) + 1 < Len(hexes)

\* C3: a non-empty result of findPath(a, b) is a route: it starts next to a,
\* steps from neighbor to neighbor, ends in b, holds neither a nor any cell
\* twice, and none of its cells is blocked.
C3_PathIsRoute ==
  (IsPath /\ ret.value # << >>) =>
    LET v == ret.value
    IN  /\ getDistance(ret.start, v[1]) = 1
        /\ \A i \in 1..(Len(v) - 1) : getDistance(v[i], v[i + 1]) = 1
        /\ compareTo(v[Len(v)], ret.end)
        /\ \A i \in 1..Len(v) : ~compareTo(v[i], ret.start)
        /\ NoRepeat(v)
        /\ \A i \in 1..Len(v) :
             /\ ~v[i].blocked
             /\ \E k \in 1..Len(hexes) : hexes[k] = v[i]

\* A path of more than MaxRadius cells around a blocked cell.
C3_Witness ==
  /\ IsPath /\ Len(ret.value) > MaxRadius
  /\ \E i \in 1..Len(hexes) : hexes[i].blocked /\ getDistance(ret.start, hexes[i]) = 1

\* C4: findPath(a, a) is empty, and findPath(a, b) is empty when b is no cell
\* of the grid or no route through unblocked cells leads from a to b.
C4_NoPathIsEmpty ==
  ( /\ IsPath
    /\ \/ compareTo(ret.start, ret.end)
       \/ ~OnGrid(hexes, ret.end)
       \/ MinCost(hexes, ret.start)[getHexAt(hexes, ret.end)] = Unreached(hexes) )
  => ret.value = << >>

\* An empty result for a blocked end on the grid, after a search that
\* went on until the heap was empty.
C4_Witness ==
  /\ IsPath /\ ret.value = << >>
  /\ ~compareTo(ret.start, ret.end)
  /\ OnGrid(hexes, ret.start) /\ OnGrid(hexes, ret.end)
  /\ hexes[getHexAt(hexes, ret.end)].blocked

\* C8: with every cost 1 and nothing blocked, getRange(a, m) from a cell a of
\* the grid is the set of the other cells within getDistance m of a.
C8_UniformRangeIsDisc ==
  (IsRange /\ Uniform(hexes) /\ OnGrid(hexes, ret.start)) =>
    { ret.value[i] : i \in 1..Len(ret.value) } =
      { hexes[i] : i \in { k \in 1..Len(hexes) :
                            /\ ~compareTo(hexes[k], ret.start)
                            /\ getDistance(ret.start, hexes[k]) <= ret.movement } }

\* A range of the largest budget from a corner of the largest grid, which
\* the budget and not the grid's edge cuts off.
C8_Witness ==
  /\ IsRange /\ Uniform(hexes) /\ radius = MaxRadius
  /\ ret.movement = MaxMovement
  /\ ret.start = Axial(radius, 0)
  /\ Len(ret.value) > 6 /\ Len(ret.value) + 1 < Len(hexes)

\* C5: Grid(r), r >= 0, holds one cell for each coordinate (x, y) with
\* |x| <= r, |y| <= r, |x + y| <= r and no other, 3r^2 + 3r + 1 cells in
\* all, each of cost 1 and not blocked.
C5_GridIsFilledHexagon ==
  (radius >= 0 /\ edits = 0) =>
    /\ { << hexes[i].x, hexes[i].y >> : i \in 1..Len(hexes) } =
         { c \in (-radius..radius) \X (-radius..radius) : Abs(c[1] + c[2]) <= radius }
    /\ \A i, j \in 1..Len(hexes) :
         (hexes[i].x = hexes[j].x /\ hexes[i].y = hexes[j].y) => i = j
    /\ Len(hexes) = 3 * radius * radius + 3 * radius + 1
    /\ \A i \in 1..Len(hexes) : hexes[i].cost = 1 /\ hexes[i].blocked = FALSE

\* The largest grid, just built.
C5_Witness ==
  /\ ret.op = "Grid" /\ ret.radius = MaxRadius
  /\ radius = MaxRadius /\ edits = 0
  /\ Len(hexes) > 7

\* The six coordinates around a, in the order of the offsets.
Around(a) ==
  << Axial(a.x + 1, a.y), Axial(a.x + 1, a.y - 1), Axial(a.x, a.y - 1),
     Axial(a.x - 1, a.y), Axial(a.x - 1, a.y + 1), Axial(a.x, a.y + 1) >>

\* C6: getNeighbors(a) returns the cells of the grid among the six
\* coordinates around a, in the order of the offsets and whatever their
\* blocked flag: at most 6 cells, none twice, each at distance 1 from a.
C6_NeighborsAreTheSixAround ==
  ret.op = "getNeighbors" =>
    LET v    == ret.value
        here == SelectSeq(Around(ret.a), LAMBDA c : OnGrid(hexes, c))
    IN  /\ Len(v) = Len(here)
        /\ \A i \in 1..Len(v) :
             /\ v[i].x = here[i].x /\ v[i].y = here[i].y
             /\ \E k \in 1..Len(hexes) : hexes[k] = v[i]
             /\ getDistance(ret.a, v[i]) = 1
        /\ Len(v) <= 6
        /\ NoRepeat(v)

\* The neighbors of a coordinate outside the grid, a blocked one among them.
C6_Witness ==
  /\ ret.op = "getNeighbors"
  /\ ~OnGrid(hexes, ret.a)
  /\ Len(ret.value) > 1
  /\ \E i \in 1..Len(ret.value) : ret.value[i].blocked

\* C7: getDistance is a metric on integer coordinates: symmetric, zero
\* exactly between equal coordinates, and within the triangle inequality
\* through every third coordinate; its sum halves exactly.
C7_DistanceIsMetric ==
  ret.op = "getDistance" =>
    /\ ret.value = getDistance(ret.b, ret.a)
    /\ (ret.value = 0) <=> (ret.a.x = ret.b.x /\ ret.a.y = ret.b.y)
    /\ ret.value >= 0
    /\ 2 * ret.value = DistanceSum(ret.a, ret.b)
    /\ \A c \in Coords : ret.value <= getDistance(ret.a, c) + getDistance(c, ret.b)

\* A distance between a cell and a coordinate outside a grid with a blocked
\* and a dear cell, where the three terms of the sum differ.
C7_Witness ==
  /\ ret.op = "getDistance" /\ ret.value = MaxRadius + 1
  /\ ret.a.y # ret.b.y /\ ret.a.x + ret.a.y # ret.b.x + ret.b.y
  /\ \E i \in 1..Len(hexes) : hexes[i].blocked
  /\ \E i \in 1..Len(hexes) : hexes[i].cost > 1

\* The grid of radius 2 as built, and with only the cell (0, 0) blocked.
Radius2Uniform == radius = 2 /\ Uniform(hexes)

Radius2CenterBlocked ==
  /\ radius = 2
  /\ \A i \in 1..Len(hexes) :
       /\ hexes[i].cost = 1
       /\ hexes[i].blocked <=> (hexes[i].x = 0 /\ hexes[i].y = 0)

PathFromTo(ax, ay, bx, by) ==
  IsPath /\ ret.start = Axial(ax, ay) /\ ret.end = Axial(bx, by)

\* C9 as stated: on the uniform grid of radius 2, findPath((-2,1), (2,-1))
\* costs getDistance((-2,1), (2,-1)), which is 3, and has 3 cells.
C9_AsStated ==
  (Radius2Uniform /\ PathFromTo(-2, 1, 2, -1)) =>
    /\ TotalCost(ret.value) = getDistance(ret.start, ret.end)
    /\ getDistance(ret.start, ret.end) = 3
    /\ Len(ret.value) = 3

\* C9, amended: on the uniform grid of radius 2, findPath((-2,1), (2,-1))
\* costs getDistance((-2,1), (2,-1)), which is 4, and has 4 cells.
C9_PathCostsTheDistance4 ==
  (Radius2Uniform /\ PathFromTo(-2, 1, 2, -1)) =>
    /\ TotalCost(ret.value) = getDistance(ret.start, ret.end)
    /\ getDistance(ret.start, ret.end) = 4
    /\ Len(ret.value) = 4

C9_Witness ==
  /\ Radius2Uniform /\ PathFromTo(-2, 1, 2, -1)
  /\ Len(ret.value) = 4
  /\ compareTo(ret.value[4], ret.end)

\* C10: on the grid of radius 2 with only (0, 0) blocked,
\* findPath((-1,0), (1,0)) is a detour of 3 cells, more than the distance 2,
\* without (0, 0), under every order of equal scores.
C10_DetourOfThree ==
  (Radius2CenterBlocked /\ PathFromTo(-1, 0, 1, 0)) =>
    /\ Len(ret.value) = 3
    /\ getDistance(ret.start, ret.end) = 2
    /\ \A i \in 1..Len(ret.value) : ~compareTo(ret.value[i], Axial(0, 0))
    /\ compareTo(ret.value[3], ret.end)

\* The detour on the side of (-1, 1), which the direction order visits last.
C10_Witness ==
  /\ Radius2CenterBlocked /\ PathFromTo(-1, 0, 1, 0)
  /\ Len(ret.value) = 3
  /\ compareTo(ret.value[1], Axial(-1, 1))

\* ------------------------------------------------------ claims on the cube
\* r is the whole number Math.round gives for v: the nearest, a half going up.
Nearest(r, v) == IsWhole(r) /\ r - 5 <= v /\ v < r + 5

\* The whole numbers and tenths around every component drawn.
RoundRange == (-2 * MaxTenths - 10)..(2 * MaxTenths + 10)

RoundOf(x, y, z) == ret.op = "round" /\ ret.c = [x |-> x, y |-> y, z |-> z]

\* C11 as stated: the cube (0.6, -1.3, 0.7) rounds to (1, -1, 0).
C11_AsStated ==
  RoundOf(6, -13, 7) => ret.value = [x |-> Whole(1), y |-> Whole(-1), z |-> Whole(0)]

\* C11, amended: the cube (0.6, -1.3, 0.7) rounds to (0, -1, 1): the
\* components round to (1, -1, 1), the residuals are 0.4, 0.3 and 0.3, that
\* of x is the largest, and x is recomputed as -y-z = 0.
C11_RoundsToZeroMinusOneOne ==
  RoundOf(6, -13, 7) =>
    /\ ret.value = [x |-> Whole(0), y |-> Whole(-1), z |-> Whole(1)]
    /\ Nearest(Whole(1), ret.c.x) /\ Abs(Whole(1) - ret.c.x) = 4
    /\ Nearest(ret.value.y, ret.c.y) /\ Abs(ret.value.y - ret.c.y) = 3
    /\ Nearest(ret.value.z, ret.c.z) /\ Abs(ret.value.z - ret.c.z) = 3
    /\ ret.value.x = -ret.value.y - ret.value.z

C11_Witness == RoundOf(6, -13, 7) /\ ret.value.x # Math_round(ret.c.x)

\* C12: round() returns whole components with x + y + z = 0, of which two
\* are the rounded components and the third is recomputed from them: x when
\* its residual is strictly greater than both others, otherwise y when its
\* residual is strictly greater than z's, otherwise z; a lattice point with
\* x + y + z = 0 is returned unchanged.
C12_RoundRecomputesOneComponent ==
  ret.op = "round" =>
    LET c  == ret.c
        v  == ret.value
        rx == CHOOSE r \in RoundRange : Nearest(r, c.x)
        ry == CHOOSE r \in RoundRange : Nearest(r, c.y)
        rz == CHOOSE r \in RoundRange : Nearest(r, c.z)
        dx == Abs(rx - c.x)
        dy == Abs(ry - c.y)
        dz == Abs(rz - c.z)
    IN  /\ IsWhole(v.x) /\ IsWhole(v.y) /\ IsWhole(v.z)
        /\ v.x + v.y + v.z = 0
        /\ (dx > dy /\ dx > dz) => (v.y = ry /\ v.z = rz)
        /\ (~(dx > dy /\ dx > dz) /\ dy > dz) => (v.x = rx /\ v.z = rz)
        /\ (~(dx > dy /\ dx > dz) /\ ~(dy > dz)) => (v.x = rx /\ v.y = ry)
        /\ (IsWhole(c.x) /\ IsWhole(c.y) /\ IsWhole(c.z) /\ c.x + c.y + c.z = 0) => v = c

\* A cube off the plane x + y + z = 0 whose x and y residuals tie above z's:
\* y is the component recomputed, and it leaves the rounded y.
C12_Witness ==
  /\ ret.op = "round"
  /\ ret.c.x + ret.c.y + ret.c.z # 0
  /\ Abs(Math_round(ret.c.x) - ret.c.x) = Abs(Math_round(ret.c.y) - ret.c.y)
  /\ Abs(Math_round(ret.c.y) - ret.c.y) > Abs(Math_round(ret.c.z) - ret.c.z)
  /\ ret.value.y # Math_round(ret.c.y)
  /\ ret.value.x = Math_round(ret.c.x)

\* C14: for a whole axial a, a.toCube() is (a.x, -a.x-a.y, a.y), on the plane
\* x + y + z = 0, and a.toCube().toAxial() is a again; for a whole cube c on
\* the plane, c.toAxial().toCube() is c again.
C14_AxialCubeRoundTrip ==
  /\ (ret.op = "toCube" /\ IsWhole(ret.a.x) /\ IsWhole(ret.a.y)) =>
       /\ ret.value = [x |-> ret.a.x, y |-> -ret.a.x - ret.a.y, z |-> ret.a.y]
       /\ ret.value.x + ret.value.y + ret.value.z = 0
       /\ ret.back.x = ret.a.x /\ ret.back.y = ret.a.y
  /\ ( /\ ret.op = "toAxial"
       /\ IsWhole(ret.c.x) /\ IsWhole(ret.c.y) /\ IsWhole(ret.c.z)
       /\ ret.c.x + ret.c.y + ret.c.z = 0 ) =>
       /\ ret.back.x = ret.c.x /\ ret.back.y = ret.c.y /\ ret.back.z = ret.c.z

\* A whole axial with y = 0 and x # 0, where the constructor's z is falsy.
C14_Witness ==
  /\ ret.op = "toCube"
  /\ ret.a.y = 0 /\ ret.a.x = Whole(1)
  /\ ret.value.y = Whole(-1) /\ ret.value.z = 0
  /\ ret.back = ret.a

\* ------------------------------------------------- claims on construction
\* C13: no grid is yielded for a negative radius and no cell for a cost
\* below 1: such a construction fails with a validation error.
C13_MalformedInputsAreRejected ==
  /\ ret.op = "Grid" => (ret.radius >= 0 /\ radius >= 0)
  /\ ret.op = "Hexagon" => ret.value.cost >= 1

\* ---------------------------------------------- claims on the search nodes
\* The nodes now in the heap, and those already extracted from it.
Open == {openHeap[i] : i \in 1..Len(openHeap)}

Extracted == (1..Len(nodes)) \ Open

Searching == pc \in {"getRange", "findPath"}

\* C15: in findPath a discovered cell that is still in the heap is recorded
\* in the visited map under its key and is not marked closed, and it has been
\* rescored for every expanded neighbor that offers a strictly lower G: its G
\* is at most that neighbor's G plus its own cost.
C15_FindPathRescoresOpenNeighbors ==
  pc = "findPath" =>
    /\ \A n \in Open \ {1} :
         /\ VisitedAt(visitedNodes, nodes, getKey(nodes[n].hex)) = n
         /\ getKey(nodes[n].hex) \notin closedHexes
    /\ \A c \in Extracted : \A n \in Open :
         Adjacent(nodes[c].hex, nodes[n].hex) =>
           nodes[n].G <= nodes[c].G + nodes[n].hex.cost

\* The cells hs with cost c and blocked flag b on the cell at a.
WithCell(hs, a, c, b) ==
  [i \in 1..Len(hs) |->
     IF compareTo(hs[i], a) THEN [hs[i] EXCEPT !.cost = c, !.blocked = b] ELSE hs[i]]

\* C17: the start cell's blocked flag and cost do not affect a search:
\* getRange(a, m) and findPath(a, b), b # a, give on the grid with any cost
\* and any blocked flag on the cell at a the result they gave.
C17_StartCellDoesNotMatter ==
  /\ (IsRange /\ OnGrid(hexes, ret.start)) =>
       \A c \in 1..MaxCost, b \in BOOLEAN :
         getRange(WithCell(hexes, ret.start, c, b), ret.start, ret.movement) = ret.value
  /\ (IsPath /\ OnGrid(hexes, ret.start) /\ ~compareTo(ret.start, ret.end)) =>
       \A c \in 1..MaxCost, b \in BOOLEAN :
         findPath(WithCell(hexes, ret.start, c, b), ret.start, ret.end) = ret.value

\* A path of more than one cell from a blocked start of cost above 1.
C17_Witness ==
  /\ IsPath /\ OnGrid(hexes, ret.start)
  /\ hexes[getHexAt(hexes, ret.start)].blocked
  /\ hexes[getHexAt(hexes, ret.start)].cost > 1
  /\ Len(ret.value) > 1

\* A step of a query: of a search from its call to its return, or the call
\* of getHexAt, getNeighbors or getDistance.
QueryStep ==
  \/ pc # "idle"
  \/ pc' # "idle"
  \/ ret = NoRet /\ ret'.op \in {"getHexAt", "getNeighbors", "getDistance"}

\* C16: no step of getRange, findPath, getHexAt, getNeighbors or getDistance
\* changes the grid: the radius and the cells, their order, coordinates, cost
\* and blocked flag stay, no cell gets another field, and the search repeated
\* on the grid it leaves returns the same result.
C16_QueriesLeaveGridUnchanged ==
  [][ QueryStep =>
        /\ radius' = radius
        /\ hexes' = hexes
        /\ \A i \in 1..Len(hexes') : DOMAIN hexes'[i] = {"x", "y", "cost", "blocked"}
        /\ ret'.op = "getRange" =>
             getRange(hexes', ret'.start, ret'.movement) = ret'.value
        /\ ret'.op = "findPath" =>
             findPath(hexes', ret'.start, ret'.end) = ret'.value ]_vars

\* A range of several cells returned on a grid with a blocked cell in it.
C16_Witness ==
  /\ IsRange /\ Len(ret.value) > 2
  /\ \E i \in 1..Len(hexes) : hexes[i].blocked /\ getDistance(ret.start, hexes[i]) = 1
  /\ \E i \in 1..Len(ret.value) : ret.value[i].cost > 1

\* Following parent references from the node i reaches the root, the node 1,
\* within k steps.
RECURSIVE ReachesRoot(_, _, _)
ReachesRoot(ns, i, k) ==
  IF i = 1 THEN TRUE
  ELSE IF k = 0 \/ ns[i].parent = 0 THEN FALSE
  ELSE ReachesRoot(ns, ns[i].parent, k - 1)

\* C18: at every step of getRange and findPath the nodes form a tree rooted
\* at the start node: the start node alone has no parent, every other node's
\* parent is an extracted node on a neighboring cell, and the parent
\* references lead from every node to the start node without a cycle.
C18_NodesFormATree ==
  Searching =>
    /\ Len(nodes) >= 1
    /\ nodes[1].parent = 0 /\ compareTo(nodes[1].hex, start)
    /\ \A i \in 2..Len(nodes) :
         /\ nodes[i].parent \in Extracted
         /\ Adjacent(nodes[nodes[i].parent].hex, nodes[i].hex)
    /\ \A i \in 1..Len(nodes) : ReachesRoot(nodes, i, Len(nodes) - 1)

\* A findPath under way with a node three parents below the start node.
C18_Witness ==
  /\ pc = "findPath" /\ Len(openHeap) > 1
  /\ \E i \in 2..Len(nodes) :
       /\ nodes[i].parent # 1
       /\ nodes[nodes[i].parent].parent # 1
       /\ ReachesRoot(nodes, i, 3)

ExtractedOf(ns, oh) == (1..Len(ns)) \ {oh[i] : i \in 1..Len(oh)}

\* C19: a search pushes each cell at most once (no two nodes on one cell, one
\* node per cell and the start), holds each node at most once in the heap, and
\* each iteration of its loop extracts one more node: at most (number of
\* cells + 1) iterations, after which the heap is empty or the end extracted.
C19_SearchesTerminate ==
  [][ (pc' # "idle") =>
        /\ \A i, j \in 1..Len(nodes') :
             getKey(nodes'[i].hex) = getKey(nodes'[j].hex) => i = j
        /\ \A i, j \in 1..Len(openHeap') : openHeap'[i] = openHeap'[j] => i = j
        /\ \A i \in 1..Len(openHeap') : openHeap'[i] \in 1..Len(nodes')
        /\ Len(nodes') <= Len(hexes') + 1
        /\ (pc # "idle") =>
             /\ Cardinality(ExtractedOf(nodes', openHeap')) =
                  Cardinality(ExtractedOf(nodes, openHeap)) + 1
             /\ Cardinality(ExtractedOf(nodes', openHeap')) <= Len(hexes) + 1 ]_vars

\* A findPath that has extracted the start and every cell of a grid of more
\* than 7 cells (but the blocked end) and is left with an empty heap.
C19_Witness ==
  /\ pc = "findPath" /\ Len(openHeap) = 0
  /\ Len(nodes) = Len(hexes) /\ Len(hexes) > 7
  /\ OnGrid(hexes, end) /\ hexes[getHexAt(hexes, end)].blocked

\* C20: in getRange nodes are extracted in non-decreasing order of G, the G
\* of a node is from its creation the least accumulated entry cost of its
\* cell from the start, no node is rescored, and H is 0 on every node.
C20_RangeExtractsInOrderOfG ==
  [][ (pc' = "getRange") =>
        /\ \A i \in 1..Len(nodes') : nodes'[i].H = 0
        /\ \A least \in {MinCost(hexes', start')} :
             \A i \in 2..Len(nodes') :
               nodes'[i].G = least[getHexAt(hexes', nodes'[i].hex)]
        /\ (pc = "getRange") =>
             /\ \A i \in 1..Len(nodes) : nodes'[i] = nodes[i]
             /\ \A c \in ExtractedOf(nodes, openHeap) :
                  \A n \in ExtractedOf(nodes', openHeap') : nodes[c].G <= nodes'[n].G
                    \/ n \in ExtractedOf(nodes, openHeap) ]_vars

\* A getRange under way that has extracted a node of G = 1 after the start
\* and holds nodes of G = 1 and of G = 2 in its heap.
C20_Witness ==
  /\ pc = "getRange" /\ ~Uniform(hexes)
  /\ \E c \in Extracted : nodes[c].G = 1
  /\ \E n \in Open : nodes[n].G = 1
  /\ \E n \in Open : nodes[n].G = 2

====
